---- MODULE Spec2Model ----
(***************************************************************************)
(* sync-conversation.py: active-branch extraction from a session log,      *)
(* change detection in sync_session, session chaining (detect_chains and   *)
(* build_chains), and the git steps of an invocation of main.              *)
(*                                                                         *)
(* A log is the sequence of its physical lines.  A line is a record        *)
(*   [uuid, parentUuid, isSidechain, text]                                 *)
(* where uuid = 0 stands for a line the parser skips (blank, malformed, or *)
(* without "uuid"), parentUuid = 0 for an empty/absent parentUuid, and     *)
(* text = TRUE when the line is a user/assistant entry whose content       *)
(* yields a non-empty text_parts list (lines 146-181 build text_data only  *)
(* then).  The text_data of line i is named by i: the code never compares  *)
(* payloads, it only carries them to the output.  Role, time and the       *)
(* first/last timestamps are carried the same way and are left out.        *)
(*                                                                         *)
(* Identifiers are opaque strings the code compares only for equality, so  *)
(* logs are enumerated up to renaming: a line introducing a new identifier *)
(* uses the least unused one.                                              *)
(***************************************************************************)
EXTENDS Integers, Sequences, FiniteSets, TLC

VARIABLES log, out, state, part, ret, transcripts, state_orphans, continues, chains,
          bc, main

vars == <<log, out, state, part, ret, transcripts, state_orphans, continues, chains,
          bc, main>>

\* ------------------------------------------------------------------ bounds
\* The most lines a log holds.
MaxLen == 3
\* Chaining: the sessions of a project, the lines of a transcript, the orphan ids
\* a state file lists, and the ids that occur in transcripts and orphan lists.
NumSessions == 3
MaxTranscriptLen == 2
MaxOrphans == 2
NumChainUuids == 2
\* build_chains on its own: the sessions a continuation map may name.
NumBuildSessions == 4

\* Python's None.  A variable that holds "nothing yet or one value" (the result of
\* the last call, a file that may not exist) is <<>> or <<value>>.
None == 0

Range(s) == {s[i] : i \in DOMAIN s}

Reverse(s) == [i \in 1..Len(s) |-> s[Len(s) + 1 - i]]

Last(s) == s[Len(s)]

\* ------------------------------------------------------- the log's lines
\* A log of MaxLen lines names at most 2 * MaxLen identifiers (a uuid and a
\* parentUuid per line), so these are all the logs of that length up to renaming.
Uuid == 1..(2 * MaxLen)

Line(u, p, s, t) == [uuid |-> u, parentUuid |-> p, isSidechain |-> s, text |-> t]

\* A line the parser skips at `continue` (lines 129-139): nothing of it is read.
SkippedLine == Line(0, 0, FALSE, FALSE)

UsedIds(l) == ({l[i].uuid : i \in DOMAIN l} \cup {l[i].parentUuid : i \in DOMAIN l}) \ {0}

\* The lines that may follow log l: identifiers already used, or the least unused.
NextLines(l) ==
    LET n == Cardinality(UsedIds(l))
    IN  {SkippedLine} \cup
        { Line(u, p, s, t) :
            u \in {x \in Uuid : x <= n + 1},
            p \in {0} \cup {x \in Uuid : x <= n + 2},
            s \in BOOLEAN, t \in BOOLEAN }

WellNamed(l, r) ==
    LET n == Cardinality(UsedIds(l))
    IN  r.uuid = 0 \/ r.parentUuid <= (IF r.uuid = n + 1 THEN n + 2 ELSE n + 1)

\* st_size: every line has at least its newline; a payload adds bytes.
LineBytes(r) == IF r.text THEN 2 ELSE 1

RECURSIVE file_size(_)
file_size(l) == IF l = <<>> THEN 0 ELSE LineBytes(Last(l)) + file_size(SubSeq(l, 1, Len(l) - 1))

\* --------------------------------------------------- extract_active_branch
\* The keys of the dict `entries`, in insertion order (first occurrence).
entry_keys(l) ==
    LET f[i \in 0..Len(l)] ==
            IF i = 0 THEN <<>>
            ELSE IF l[i].uuid # 0 /\ l[i].uuid \notin Range(f[i - 1])
                 THEN Append(f[i - 1], l[i].uuid)
                 ELSE f[i - 1]
    IN  f[Len(l)]

\* entries[uuid] = {...}: a later line with the same uuid overwrites the earlier.
entries(l) ==
    [u \in {l[i].uuid : i \in DOMAIN l} \ {0} |->
        LET i == CHOOSE i \in DOMAIN l :
                    l[i].uuid = u /\ \A j \in DOMAIN l : j > i => l[j].uuid # u
        IN  [parentUuid |-> l[i].parentUuid,
             line |-> i,
             isSidechain |-> l[i].isSidechain,
             text_data |-> IF l[i].text THEN i ELSE None]]

\* children[parent_uuid].append(uuid): one link per line, never removed.
children(l) ==
    LET linked == {i \in DOMAIN l : l[i].uuid # 0 /\ l[i].parentUuid # 0}
    IN  [p \in {l[i].parentUuid : i \in linked} |->
            LET f[i \in 0..Len(l)] ==
                    IF i = 0 THEN <<>>
                    ELSE IF i \in linked /\ l[i].parentUuid = p
                         THEN Append(f[i - 1], l[i].uuid)
                         ELSE f[i - 1]
            IN  f[Len(l)]]

\* Mutant: the side-branch flag of the citing entry is not consulted.
IsOrphanRef_anyEntry(E, u) ==
    /\ E[u].parentUuid # 0
    /\ E[u].parentUuid \notin DOMAIN E

IsOrphanRef(E, u) ==
    /\ E[u].parentUuid # 0
    /\ E[u].parentUuid \notin DOMAIN E
    /\ ~E[u].isSidechain

orphan_parents(l) ==
    LET E == entries(l)
        sel == SelectSeq(entry_keys(l), LAMBDA u : IsOrphanRef(E, u))
    IN  [i \in 1..Len(sel) |-> E[sel[i]].parentUuid]

\* Mutant: side-branch entries are candidate leaves like any other.
IsCandidateLeaf_anyLeaf(E, C, u) == u \notin DOMAIN C

IsCandidateLeaf(E, C, u) == u \notin DOMAIN C /\ ~E[u].isSidechain

leaves(l) ==
    LET E == entries(l)
        C == children(l)
        nonSide == SelectSeq(entry_keys(l), LAMBDA u : IsCandidateLeaf(E, C, u))
    IN  IF nonSide # <<>> THEN nonSide
        ELSE SelectSeq(entry_keys(l), LAMBDA u : u \notin DOMAIN C)

\* The upward walk of lines 222-230; None when the loop ends without a root.
RECURSIVE TraceRoot(_, _, _)
TraceRoot(E, current, visited) ==
    IF current = 0 \/ current \notin DOMAIN E \/ current \in visited THEN None
    ELSE LET parent == E[current].parentUuid
         IN  IF parent = 0 \/ parent \notin DOMAIN E THEN current
             ELSE TraceRoot(E, parent, visited \cup {current})

leaf_to_root(l) ==
    LET E == entries(l)
    IN  [leaf \in {x \in Range(leaves(l)) : TraceRoot(E, x, {}) # None} |->
            TraceRoot(E, leaf, {})]

root_to_leaves(l) ==
    LET l2r == leaf_to_root(l)
    IN  [root \in {l2r[x] : x \in DOMAIN l2r} |->
            SelectSeq(leaves(l), LAMBDA x : x \in DOMAIN l2r /\ l2r[x] = root)]

RootLine(E, r) == E[r].line

\* Mutant: the roots come out latest first.
RECURSIVE SortByLine_descending(_, _)
SortByLine_descending(E, S) ==
    IF S = {} THEN <<>>
    ELSE LET r == CHOOSE r \in S : \A q \in S : RootLine(E, r) >= RootLine(E, q)
         IN  <<r>> \o SortByLine_descending(E, S \ {r})

RECURSIVE SortByLine(_, _)
SortByLine(E, S) ==
    IF S = {} THEN <<>>
    ELSE LET r == CHOOSE r \in S : \A q \in S : RootLine(E, r) <= RootLine(E, q)
         IN  <<r>> \o SortByLine(E, S \ {r})

\* Mutant: only the most recent segment is kept.
sorted_roots_latest(l) ==
    LET all == SortByLine(entries(l), DOMAIN root_to_leaves(l))
    IN  IF all = <<>> THEN <<>> ELSE <<Last(all)>>

sorted_roots(l) == SortByLine(entries(l), DOMAIN root_to_leaves(l))

\* Mutant: the earliest leaf wins (min for max).
MaxByLine_earliest(E, S) == CHOOSE x \in S : \A y \in S : E[y].line >= E[x].line

MaxByLine(E, S) == CHOOSE x \in S : \A y \in S : E[y].line <= E[x].line

active_leaf(l, root) == MaxByLine(entries(l), Range(root_to_leaves(l)[root]))

\* The walk of lines 249-255, leaf first.
RECURSIVE TracePath(_, _, _)
TracePath(E, current, visited) ==
    IF current = 0 \/ current \notin DOMAIN E \/ current \in visited THEN <<>>
    ELSE <<current>> \o TracePath(E, E[current].parentUuid, visited \cup {current})

path_uuids(l, leaf) == Reverse(TracePath(entries(l), leaf, {}))

\* The text_data of the entries of one path that have one (lines 259-262).
BranchMessages(E, path) ==
    LET sel == SelectSeq(path, LAMBDA u : E[u].text_data # None)
    IN  [i \in 1..Len(sel) |-> E[sel[i]].text_data]

\* The path of each root's active branch, roots in sorted order.
branches(l) ==
    LET roots == sorted_roots(l)
    IN  [i \in 1..Len(roots) |-> path_uuids(l, active_leaf(l, roots[i]))]

all_messages(l) ==
    LET E == entries(l)
        B == branches(l)
        f[i \in 0..Len(B)] ==
            IF i = 0 THEN <<>> ELSE f[i - 1] \o BranchMessages(E, B[i])
    IN  f[Len(B)]

overall_active_leaf(l) ==
    LET roots == sorted_roots(l)
    IN  IF roots = <<>> THEN None ELSE active_leaf(l, Last(roots))

extract_active_branch(l) ==
    IF DOMAIN entries(l) = {}
    THEN [messages |-> <<>>, file_size |-> file_size(l), leaf_uuid |-> None,
          orphan_parents |-> <<>>]
    ELSE IF leaves(l) = <<>>
    THEN [messages |-> <<>>, file_size |-> file_size(l), leaf_uuid |-> None,
          orphan_parents |-> orphan_parents(l)]
    ELSE [messages |-> all_messages(l), file_size |-> file_size(l),
          leaf_uuid |-> overall_active_leaf(l),
          orphan_parents |-> orphan_parents(l)]

\* ------------------------------------------------ specification: one log
\* build_chains is not being executed: its frame holds nothing.
NoFrame ==
    [pc |-> "idle", continued_by |-> <<>>, heads |-> <<>>, chain |-> <<>>,
     current |-> None, seen |-> {}, chains |-> <<>>]

\* main is not being executed.
NoMain ==
    [pc |-> "idle", gc |-> "none", git_dir |-> FALSE, first_run |-> FALSE,
     committed |-> FALSE, signal |-> FALSE]

InitAll ==
    /\ log = <<>>
    /\ out = <<>>
    /\ state = <<>>
    /\ part = <<>>
    /\ ret = <<>>
    /\ transcripts = <<>>
    /\ state_orphans = <<>>
    /\ continues = <<>>
    /\ chains = <<>>
    /\ bc = NoFrame
    /\ main = NoMain

\* The session appends one line to its log.
AppendLine ==
    /\ Len(log) < MaxLen
    /\ \E r \in NextLines(log) :
          /\ WellNamed(log, r)
          /\ log' = Append(log, r)
    /\ out' = <<>>
    /\ UNCHANGED <<state, part, ret, transcripts, state_orphans, continues, chains, bc, main>>

ExtractActiveBranch ==
    /\ out = <<>>
    /\ out' = <<extract_active_branch(log)>>
    /\ UNCHANGED <<log, state, part, ret, transcripts, state_orphans, continues, chains, bc, main>>

NextExtract == AppendLine \/ ExtractActiveBranch

SpecExtract == InitAll /\ [][NextExtract]_vars

\* ------------------------------------------------------------ sync_session
\* One block of four lines per message: heading, blank, body, blank ("\n"-joined
\* by format_messages; the part file is modelled as its list of lines).
format_messages(messages) ==
    [k \in 1..(4 * Len(messages)) |->
        LET msg == messages[(k + 3) \div 4]
        IN  CASE k % 4 = 1 -> <<"## ", msg>>
              [] k % 4 = 3 -> <<"text", msg>>
              [] OTHER -> <<>>]

\* open(part_file, "w") and f.write(text): the file holds the new text; `writes`
\* counts how often the file was written (what a rewrite leaves on the file
\* system even when the text is the same).
WritePart(p, text) ==
    [writes |-> IF p = <<>> THEN 1 ELSE p[1].writes + 1, text |-> text]

\* The state file written when the branch has no message (lines 627-629).
EmptyState(r) == [file_size |-> r.file_size, leaf_uuid |-> None]

\* The state file written after a render (lines 638-646).
RenderedState(r) ==
    [file_size |-> r.file_size, leaf_uuid |-> r.leaf_uuid,
     orphan_parents |-> r.orphan_parents]

\* Mutant: the size recorded is never taken as a reason to skip.
Unchanged_never(st, l) == FALSE

\* prev_state.get("file_size") == current_file_size; no state file reads as {}.
Unchanged(st, l) == st # <<>> /\ st[1].file_size = file_size(l)

\* sync_session(transcript_path, session_id, parts_dir, state_dir) of one session:
\* `state` is its state file, `part` its part file, `ret` the value returned.
sync_session ==
    IF Unchanged(state, log)
    THEN /\ ret' = <<FALSE>>
         /\ UNCHANGED <<state, part>>
    ELSE LET r == extract_active_branch(log)
         IN  IF r.messages = <<>>
             THEN /\ state' = <<EmptyState(r)>>
                  /\ ret' = <<FALSE>>
                  /\ UNCHANGED part
             ELSE /\ part' = <<WritePart(part, format_messages(r.messages))>>
                  /\ state' = <<RenderedState(r)>>
                  /\ ret' = <<TRUE>>

\* A call of sync_session on its own.
SyncSession ==
    /\ sync_session
    /\ UNCHANGED <<log, out, transcripts, state_orphans, continues, chains, bc, main>>

\* --------------------------------- specification: one session being synced
NextSync == AppendLine \/ SyncSession

SpecSync == InitAll /\ [][NextSync]_vars

\* ------------------------------------------------------------ detect_chains
\* Session ids; sorted(glob("*.jsonl")) and sorted(heads) are their ascending order.
Sid == 1..NumSessions

ChainUuid == 1..NumChainUuids

\* A Python dict: the keys in insertion order, and the value of each key.
EmptyDict == [keys |-> <<>>, val |-> <<>>]

DictSet(d, k, v) ==
    [keys |-> IF k \in DOMAIN d.val THEN d.keys ELSE Append(d.keys, k),
     val |-> (k :> v) @@ d.val]

\* The orders in which state_dir.glob("*.json") may yield the state files.
GlobOrders == {o \in [1..NumSessions -> Sid] : Range(o) = Sid}

\* The sessions whose state lists orphans, in glob order (lines 321-330).
session_orphans(order, so) == SelectSeq(order, LAMBDA sid : so[sid] # <<>>)

\* all_orphans[orphan] = sid, in the order of session_orphans.items() (lines 336-339).
all_orphans(order, so) ==
    LET sids == session_orphans(order, so)
        perSid(ao, sid) ==
            LET g[j \in 0..Len(so[sid])] ==
                    IF j = 0 THEN ao ELSE (so[sid][j] :> sid) @@ g[j - 1]
            IN  g[Len(so[sid])]
        f[i \in 0..Len(sids)] == IF i = 0 THEN <<>> ELSE perSid(f[i - 1], sids[i])
    IN  f[Len(sids)]

\* One line of a transcript (lines 356-361).
ScanLine(AO, source_sid, uuid, acc) ==
    IF uuid \in acc.remaining
    THEN LET child_sid == AO[uuid]
         IN  [continues |-> IF child_sid # source_sid
                            THEN DictSet(acc.continues, child_sid, source_sid)
                            ELSE acc.continues,
              remaining |-> acc.remaining \ {uuid}]
    ELSE acc

\* One transcript, line by line (lines 352-363).
ScanFile(AO, source_sid, lines, acc) ==
    LET f[i \in 0..Len(lines)] ==
            IF i = 0 THEN acc ELSE ScanLine(AO, source_sid, lines[i], f[i - 1])
    IN  f[Len(lines)]

\* The transcripts in sorted order; the loop breaks once nothing remains and
\* skips a file of size 0 (lines 345-350).
ScanFiles(AO, T) ==
    LET f[i \in 0..NumSessions] ==
            IF i = 0 THEN [continues |-> EmptyDict, remaining |-> DOMAIN AO]
            ELSE IF f[i - 1].remaining = {} THEN f[i - 1]
            ELSE IF T[i] = <<>> THEN f[i - 1]
            ELSE ScanFile(AO, i, T[i], f[i - 1])
    IN  f[NumSessions]

\* detect_chains, with the state files enumerated in `order`: so[sid] is the
\* orphan_parents list of sid's state file, T[sid] the uuids of its transcript.
detect_chains(order, so, T) ==
    IF session_orphans(order, so) = <<>> THEN EmptyDict
    ELSE ScanFiles(all_orphans(order, so), T).continues

\* ------------------------------------------------------------- build_chains
\* continued_by[prev_sid] = sid over continues.items() (lines 376-378).
continued_by(c) ==
    LET f[i \in 0..Len(c.keys)] ==
            IF i = 0 THEN <<>> ELSE (c.val[c.keys[i]] :> c.keys[i]) @@ f[i - 1]
    IN  f[Len(c.keys)]

RECURSIVE SortAscending(_)
SortAscending(S) ==
    IF S = {} THEN <<>>
    ELSE LET m == CHOOSE m \in S : \A x \in S : m <= x
         IN  <<m>> \o SortAscending(S \ {m})

\* The while loop of lines 389-392, from `current` on.
RECURSIVE FollowChain(_, _)
FollowChain(cb, current) ==
    IF current \in DOMAIN cb
    THEN <<cb[current]>> \o FollowChain(cb, cb[current])
    ELSE <<>>

\* set(continues.keys()) | set(continues.values()) (line 375).
all_sessions(c) == DOMAIN c.val \cup {c.val[k] : k \in DOMAIN c.val}

\* Mutant: the head test is dropped, every session starts a chain.
IsHead_any(c, sid) == TRUE

\* Mutant: the negation is lost, the continuing sessions are taken as heads.
IsHead_isContinuation(c, sid) == sid \in DOMAIN c.val

\* `sid not in continues` (line 381).
IsHead(c, sid) == sid \notin DOMAIN c.val

\* sorted(heads) (lines 381, 385).
heads(c) == SortAscending({sid \in all_sessions(c) : IsHead(c, sid)})

build_chains(c) ==
    LET cb == continued_by(c)
        hs == heads(c)
    IN  [i \in 1..Len(hs) |-> <<hs[i]>> \o FollowChain(cb, hs[i])]

\* ------------------------------------- specification: a project's sessions
InitChains ==
    /\ log = <<>>
    /\ out = <<>>
    /\ state = <<>>
    /\ part = <<>>
    /\ ret = <<>>
    /\ transcripts = [sid \in Sid |-> <<>>]
    /\ state_orphans = [sid \in Sid |-> <<>>]
    /\ continues = <<>>
    /\ chains = <<>>
    /\ bc = NoFrame
    /\ main = NoMain

\* A session appends an entry with a uuid to its transcript.
WriteTranscriptLine ==
    /\ \E sid \in Sid, u \in ChainUuid :
          /\ Len(transcripts[sid]) < MaxTranscriptLen
          /\ transcripts' = [transcripts EXCEPT ![sid] = Append(@, u)]
    /\ continues' = <<>>
    /\ chains' = <<>>
    /\ UNCHANGED <<log, out, state, part, ret, state_orphans, bc, main>>

\* sync_session writes a session's state file: its orphan_parents are parent ids
\* that are not ids of the session's own log at that time (lines 199-206, 638-646).
WriteStateFile ==
    /\ \E sid \in Sid, n \in 1..MaxOrphans :
          \E orphans \in [1..n -> ChainUuid \ Range(transcripts[sid])] :
              state_orphans' = [state_orphans EXCEPT ![sid] = orphans]
    /\ continues' = <<>>
    /\ chains' = <<>>
    /\ UNCHANGED <<log, out, state, part, ret, transcripts, bc, main>>

DetectChains ==
    /\ continues = <<>>
    /\ \E order \in GlobOrders :
          continues' = <<detect_chains(order, state_orphans, transcripts)>>
    /\ UNCHANGED <<log, out, state, part, ret, transcripts, state_orphans, chains, bc, main>>

BuildChains ==
    /\ continues # <<>>
    /\ chains = <<>>
    /\ chains' = <<build_chains(continues[1])>>
    /\ UNCHANGED <<log, out, state, part, ret, transcripts, state_orphans, continues, bc, main>>

NextChains == WriteTranscriptLine \/ WriteStateFile \/ DetectChains \/ BuildChains

SpecChains == InitChains /\ [][NextChains]_vars

\* ------------------------- specification: build_chains, statement by statement
BuildSid == 1..NumBuildSessions

\* The most sessions a chain under construction is let grow to; the model stops
\* the while loop there (a chain of distinct sessions stays below it).
MaxChainLen == NumBuildSessions + 2

\* The orders in which a dict may hold some of the sessions as its keys.
KeyOrders ==
    {ks \in UNION {[1..n -> BuildSid] : n \in 0..NumBuildSessions} :
        \A i \in DOMAIN ks, j \in DOMAIN ks : ks[i] = ks[j] => i = j}

\* What detect_chains can record for the keys ks: each key continues one other
\* session (continues[child_sid] = source_sid only when child_sid != source_sid,
\* line 359).
ContinuationsOf(ks) ==
    {v \in [Range(ks) -> BuildSid] : \A k \in Range(ks) : v[k] # k}

InitBuild ==
    /\ log = <<>>
    /\ out = <<>>
    /\ state = <<>>
    /\ part = <<>>
    /\ ret = <<>>
    /\ transcripts = <<>>
    /\ state_orphans = <<>>
    /\ \E ks \in KeyOrders : \E v \in ContinuationsOf(ks) :
          continues = <<[keys |-> ks, val |-> v]>>
    /\ chains = <<>>
    /\ bc = NoFrame
    /\ main = NoMain

\* Lines 375-384: the reverse map, the heads, chains = [] and seen = set().
BuildChainsEnter ==
    /\ bc.pc = "idle"
    /\ continues # <<>>
    /\ bc' = [pc |-> "for", continued_by |-> continued_by(continues[1]),
              heads |-> heads(continues[1]), chain |-> <<>>, current |-> None,
              seen |-> {}, chains |-> <<>>]
    /\ UNCHANGED <<log, out, state, part, ret, transcripts, state_orphans, continues,
                   chains, main>>

\* Lines 385-388: the next head opens a chain.
BuildChainsForHead ==
    /\ bc.pc = "for"
    /\ bc.heads # <<>>
    /\ LET head == Head(bc.heads)
       IN  bc' = [bc EXCEPT !.pc = "while", !.heads = Tail(bc.heads),
                            !.chain = <<head>>, !.seen = bc.seen \cup {head},
                            !.current = head]
    /\ UNCHANGED <<log, out, state, part, ret, transcripts, state_orphans, continues,
                   chains, main>>

\* Lines 389-392: one turn of `while current in continued_by`.
BuildChainsWhileStep ==
    /\ bc.pc = "while"
    /\ bc.current \in DOMAIN bc.continued_by
    /\ Len(bc.chain) < MaxChainLen
    /\ LET next == bc.continued_by[bc.current]
       IN  bc' = [bc EXCEPT !.current = next, !.chain = Append(bc.chain, next),
                            !.seen = bc.seen \cup {next}]
    /\ UNCHANGED <<log, out, state, part, ret, transcripts, state_orphans, continues,
                   chains, main>>

\* Lines 389, 393: the loop condition fails, the chain is appended to chains.
BuildChainsWhileExit ==
    /\ bc.pc = "while"
    /\ bc.current \notin DOMAIN bc.continued_by
    /\ bc' = [bc EXCEPT !.pc = "for", !.chains = Append(bc.chains, bc.chain)]
    /\ UNCHANGED <<log, out, state, part, ret, transcripts, state_orphans, continues,
                   chains, main>>

\* Lines 385, 395: no head is left, chains is returned.
BuildChainsReturn ==
    /\ bc.pc = "for"
    /\ bc.heads = <<>>
    /\ bc' = [bc EXCEPT !.pc = "return"]
    /\ chains' = <<bc.chains>>
    /\ UNCHANGED <<log, out, state, part, ret, transcripts, state_orphans, continues,
                   main>>

NextBuild ==
    \/ BuildChainsEnter
    \/ BuildChainsForHead
    \/ BuildChainsWhileStep
    \/ BuildChainsWhileExit
    \/ BuildChainsReturn

SpecBuild == InitBuild /\ [][NextBuild]_vars

\* The statements of one call run one after the other until the call returns.
SpecBuildFair == SpecBuild /\ WF_vars(NextBuild)

\* ------------------------------------- specification: invocations of main
\* How a subprocess.run(["git", ...], capture_output=True, timeout=5) ends: git
\* exits 0, git exits non-zero (no check=True, so run returns), the executable
\* is not found (FileNotFoundError), or the timeout expires (TimeoutExpired).
GitOutcome == {"ok", "fail", "missing", "timeout"}

Raises(o) == o \in {"missing", "timeout"}

\* The logs an invocation may find: no line yet, a first entry with or without text.
MainLogs == {<<>>, <<Line(1, 0, FALSE, TRUE)>>, <<Line(1, 0, FALSE, FALSE)>>}

InitMain ==
    /\ log \in MainLogs
    /\ out = <<>>
    /\ state = <<>>
    /\ part = <<>>
    /\ ret = <<>>
    /\ transcripts = <<>>
    /\ state_orphans = <<>>
    /\ continues = <<>>
    /\ chains = <<>>
    /\ bc = NoFrame
    /\ \E g \in BOOLEAN : main = [NoMain EXCEPT !.pc = "start", !.git_dir = g]

\* Lines 725-751: the hook input names a log that is found; first_run is read
\* and ensure_project_setup is entered (its directories and .gitignore are
\* written; git is run only when .git is absent, line 69).
MainEnter ==
    /\ main.pc = "start"
    /\ main' = [main EXCEPT !.first_run = ~main.git_dir,
                            !.pc = IF main.git_dir THEN "sync" ELSE "setup_init"]
    /\ UNCHANGED <<log, out, state, part, ret, transcripts, state_orphans, continues,
                   chains, bc>>

\* Lines 70-72: git init, outside any try.  An exception leaves
\* ensure_project_setup and main, which has no handler either.
SetupGitInit ==
    /\ main.pc = "setup_init"
    /\ \E o \in GitOutcome :
          main' = IF Raises(o) THEN [main EXCEPT !.pc = "raised"]
                  ELSE [main EXCEPT !.pc = "setup_add",
                                    !.git_dir = (main.git_dir \/ o = "ok")]
    /\ UNCHANGED <<log, out, state, part, ret, transcripts, state_orphans, continues,
                   chains, bc>>

\* Lines 73-77: index.md is written if absent, then git add -A.
SetupGitAdd ==
    /\ main.pc = "setup_add"
    /\ \E o \in GitOutcome :
          main' = IF Raises(o) THEN [main EXCEPT !.pc = "raised"]
                  ELSE [main EXCEPT !.pc = "setup_commit"]
    /\ UNCHANGED <<log, out, state, part, ret, transcripts, state_orphans, continues,
                   chains, bc>>

\* Lines 78-83: git commit --allow-empty; then back in main, line 754.
SetupGitCommit ==
    /\ main.pc = "setup_commit"
    /\ \E o \in GitOutcome :
          main' = IF Raises(o) THEN [main EXCEPT !.pc = "raised"]
                  ELSE [main EXCEPT !.pc = IF main.first_run THEN "backfill" ELSE "sync",
                                    !.committed = (o = "ok")]
    /\ UNCHANGED <<log, out, state, part, ret, transcripts, state_orphans, continues,
                   chains, bc>>

\* backfill_sessions (lines 699-722): every non-empty log of the directory is
\* synced, the triggering one among them; `others` says whether a sync of
\* another session returned True.  With count > 0 the index is rebuilt and
\* git_commit is called.
Backfill ==
    /\ main.pc = "backfill"
    /\ IF file_size(log) = 0
       THEN UNCHANGED <<state, part, ret>>
       ELSE sync_session
    /\ \E others \in BOOLEAN :
          LET count_positive == others \/ (file_size(log) # 0 /\ ret' = <<TRUE>>)
          IN  main' = IF count_positive
                      THEN [main EXCEPT !.pc = "backfill_commit", !.gc = "add"]
                      ELSE [main EXCEPT !.pc = "sync"]
    /\ UNCHANGED <<log, out, transcripts, state_orphans, continues, chains, bc>>

\* Where git_commit returns to: main line 760 after the backfill, line 769 else.
AfterGitCommit(m) ==
    [m EXCEPT !.gc = "none", !.pc = IF m.pc = "backfill_commit" THEN "sync" ELSE "print"]

\* git_commit, lines 579-581: git add -A inside the try; FileNotFoundError and
\* TimeoutExpired are caught at line 596 and git_commit returns.
GitCommitAdd ==
    /\ main.pc \in {"backfill_commit", "main_commit"}
    /\ main.gc = "add"
    /\ \E o \in GitOutcome :
          main' = IF Raises(o) THEN AfterGitCommit(main) ELSE [main EXCEPT !.gc = "diff"]
    /\ UNCHANGED <<log, out, state, part, ret, transcripts, state_orphans, continues,
                   chains, bc>>

\* git_commit, lines 583-589: git diff --cached --quiet exits 0 when nothing is
\* staged, 1 when something is, another non-zero code when it fails.
GitCommitDiff ==
    /\ main.pc \in {"backfill_commit", "main_commit"}
    /\ main.gc = "diff"
    /\ \E o \in GitOutcome, staged \in BOOLEAN :
          main' = IF Raises(o) THEN AfterGitCommit(main)
                  ELSE IF o = "fail" \/ staged THEN [main EXCEPT !.gc = "commit"]
                  ELSE AfterGitCommit(main)
    /\ UNCHANGED <<log, out, state, part, ret, transcripts, state_orphans, continues,
                   chains, bc>>

\* git_commit, lines 590-597: git commit -m msg.
GitCommitCommit ==
    /\ main.pc \in {"backfill_commit", "main_commit"}
    /\ main.gc = "commit"
    /\ \E o \in GitOutcome :
          main' = [AfterGitCommit(main) EXCEPT !.committed = (main.committed \/ o = "ok")]
    /\ UNCHANGED <<log, out, state, part, ret, transcripts, state_orphans, continues,
                   chains, bc>>

\* Lines 760-766: the triggering session is synced; when it was updated the
\* index is rebuilt and, if get_first_human_message finds a summary (a user
\* entry with text), git_commit is called.
MainSync ==
    /\ main.pc = "sync"
    /\ sync_session
    /\ \E summary \in BOOLEAN :
          main' = IF ret' = <<TRUE>> /\ summary
                  THEN [main EXCEPT !.pc = "main_commit", !.gc = "add"]
                  ELSE [main EXCEPT !.pc = "print"]
    /\ UNCHANGED <<log, out, transcripts, state_orphans, continues, chains, bc>>

\* Line 769: print(json.dumps({"suppressOutput": True})).
MainPrint ==
    /\ main.pc = "print"
    /\ main' = [main EXCEPT !.pc = "done", !.signal = TRUE]
    /\ UNCHANGED <<log, out, state, part, ret, transcripts, state_orphans, continues,
                   chains, bc>>

\* The session goes on (one more entry, child of the last) and the hook fires
\* again: a new process runs main on the same project directory.
HookFiresAgain ==
    /\ main.pc \in {"done", "raised"}
    /\ Len(log) < MaxLen
    /\ \E t \in BOOLEAN : log' = Append(log, Line(Len(log) + 1, Len(log), FALSE, t))
    /\ main' = [NoMain EXCEPT !.pc = "start", !.git_dir = main.git_dir]
    /\ ret' = <<>>
    /\ UNCHANGED <<out, state, part, transcripts, state_orphans, continues, chains, bc>>

NextMain ==
    \/ MainEnter
    \/ SetupGitInit
    \/ SetupGitAdd
    \/ SetupGitCommit
    \/ Backfill
    \/ GitCommitAdd
    \/ GitCommitDiff
    \/ GitCommitCommit
    \/ MainSync
    \/ MainPrint
    \/ HookFiresAgain

SpecMain == InitMain /\ [][NextMain]_vars

\* ------------------------------------------------ vocabulary of the claims
\* u and its ancestors along parent links, as far as they are entries.
UpSet(E, u) ==
    LET f[k \in 0..Cardinality(DOMAIN E)] ==
            IF k = 0 THEN {u}
            ELSE f[k - 1] \cup ({E[x].parentUuid : x \in f[k - 1]} \cap DOMAIN E)
    IN  f[Cardinality(DOMAIN E)]

\* A root of the forest: no parent id, or a parent id that is no entry's id.
IsRoot(E, r) == r \in DOMAIN E /\ (E[r].parentUuid = 0 \/ E[r].parentUuid \notin DOMAIN E)

Roots(E) == {r \in DOMAIN E : IsRoot(E, r)}

\* The tree of root r: the entries whose ancestors include r.
TreeOf(E, r) == {u \in DOMAIN E : r \in UpSet(E, u)}

\* p runs from root r down to leaf x, each step a parent link.
IsPathFromTo(E, p, r, x) ==
    /\ p # <<>>
    /\ p[1] = r
    /\ Last(p) = x
    /\ \A i \in 1..(Len(p) - 1) : E[p[i + 1]].parentUuid = p[i]

\* A leaf of the forest: an id with no recorded child link.
ForestLeaves(l) == {u \in DOMAIN entries(l) : u \notin DOMAIN children(l)}

\* The first line that carries uuid u.
FirstLine(l, u) == CHOOSE i \in DOMAIN l : l[i].uuid = u /\ \A j \in 1..(i - 1) : l[j].uuid # u

\* The entry a message of the output was read from (text_data is named by its line).
EntryOfMessage(E, m) == CHOOSE u \in DOMAIN E : E[u].text_data = m

\* The root of the emitted branch that entry u lies on.
BranchRootOf(B, u) == B[CHOOSE i \in DOMAIN B : u \in Range(B[i])][1]

\* -------------------------------------------------------------------- C1
\* C1 (rewind): for every root with two or more candidate leaves, the branch
\* emitted for it is the root-to-leaf path ending at the candidate leaf with the
\* greatest line; every text of that path is in the output, and an entry that
\* lies only on the path of another leaf of that root has no message in it.
C1_Rewind ==
    out # <<>> =>
        LET E == entries(log)
            B == branches(log)
            cand == Range(leaves(log))
        IN  \A r \in Roots(E) :
                LET mine == {c \in cand : r \in UpSet(E, c)}
                IN  Cardinality(mine) >= 2 =>
                        LET best == CHOOSE c \in mine : \A d \in mine : E[d].line <= E[c].line
                        IN  /\ \E i \in DOMAIN B : IsPathFromTo(E, B[i], r, best)
                            /\ \A i \in DOMAIN B : B[i][1] = r => Last(B[i]) = best
                            /\ \A e \in UpSet(E, best) :
                                  E[e].text_data # None =>
                                      E[e].text_data \in Range(out[1].messages)
                            /\ \A c \in mine : \A e \in UpSet(E, c) \ UpSet(E, best) :
                                  E[e].text_data # None =>
                                      E[e].text_data \notin Range(out[1].messages)

\* A rewind happened: a root has two candidate leaves, and the abandoned one has text.
C1_Witness ==
    /\ out # <<>>
    /\ LET E == entries(log)
           cand == Range(leaves(log))
       IN  \E r \in Roots(E) : \E c \in cand, d \in cand :
              /\ r \in UpSet(E, c) /\ r \in UpSet(E, d)
              /\ E[c].line < E[d].line
              /\ E[c].text_data # None
              /\ out[1].messages # <<>>

\* -------------------------------------------------------------------- C2
\* The output holds each text of each emitted branch once, messages of one branch
\* in root-to-leaf order, and branches one after the other in the order `before`
\* of their roots.
OrderedByRoots(l, o, before(_, _)) ==
    LET E == entries(l)
        B == branches(l)
        M == o.messages
    IN  /\ \A i \in DOMAIN B : \A u \in Range(B[i]) :
              E[u].text_data # None => \E k \in DOMAIN M : M[k] = E[u].text_data
        /\ \A k1 \in DOMAIN M, k2 \in DOMAIN M :
              k1 < k2 =>
                  LET e1 == EntryOfMessage(E, M[k1])
                      e2 == EntryOfMessage(E, M[k2])
                      r1 == BranchRootOf(B, e1)
                      r2 == BranchRootOf(B, e2)
                  IN  /\ M[k1] # M[k2]
                      /\ r1 = r2 => e1 \in UpSet(E, e2)
                      /\ r1 # r2 => before(r1, r2)

\* C2 as stated: roots in ascending order of the line at which each first appeared.
C2_FirstAppearanceOrder ==
    out # <<>> =>
        OrderedByRoots(log, out[1], LAMBDA r1, r2 : FirstLine(log, r1) < FirstLine(log, r2))

\* C2 (multi-root ordering), amended: roots in ascending order of the line their
\* entry records, which is the line of the last record carrying the root's id.
C2_MultiRootOrder ==
    out # <<>> =>
        LET E == entries(log)
        IN  OrderedByRoots(log, out[1], LAMBDA r1, r2 : E[r1].line < E[r2].line)

\* Two roots, each with a message in the output.
C2_Witness ==
    /\ out # <<>>
    /\ LET E == entries(log)
           B == branches(log)
       IN  \E i \in DOMAIN B, j \in DOMAIN B :
              /\ i < j
              /\ E[B[i][1]].text_data \in Range(out[1].messages)
              /\ E[B[j][1]].text_data \in Range(out[1].messages)
              /\ E[B[i][1]].text_data # None /\ E[B[j][1]].text_data # None

\* -------------------------------------------------------------------- C3
\* C3 (side-branch exclusion): a side-branch entry is a candidate leaf only when
\* the forest has no non-side-branch leaf, and the active leaf of an emitted
\* branch (also the leaf returned) is never a side-branch entry while its tree
\* holds a non-side-branch leaf.
C3_SideBranchExclusion ==
    out # <<>> =>
        LET E == entries(log)
            B == branches(log)
            mainLeaves == {u \in ForestLeaves(log) : ~E[u].isSidechain}
        IN  /\ \A c \in Range(leaves(log)) : E[c].isSidechain => mainLeaves = {}
            /\ \A i \in DOMAIN B :
                  E[Last(B[i])].isSidechain => TreeOf(E, B[i][1]) \cap mainLeaves = {}
            /\ out[1].leaf_uuid # None =>
                  (E[out[1].leaf_uuid].isSidechain => mainLeaves = {})

\* A tree holds a side-branch leaf later than its non-side-branch leaf.
C3_Witness ==
    /\ out # <<>>
    /\ LET E == entries(log)
       IN  \E r \in Roots(E) : \E s \in TreeOf(E, r), m \in TreeOf(E, r) :
              /\ s \in ForestLeaves(log) /\ m \in ForestLeaves(log)
              /\ E[s].isSidechain /\ ~E[m].isSidechain
              /\ E[m].line < E[s].line
              /\ out[1].leaf_uuid = m

\* -------------------------------------------------------------------- C4
\* C4 as stated: every root of the forest starts exactly one emitted branch.
C4_EveryRootHasBranch ==
    out # <<>> =>
        LET E == entries(log)
            B == branches(log)
        IN  \A r \in Roots(E) : Cardinality({i \in DOMAIN B : B[i][1] = r}) = 1

\* C4 (one branch per root), amended: a root starts exactly one emitted branch
\* when some candidate leaf has it among its ancestors, and none otherwise; every
\* emitted branch starts at a root.
C4_OneBranchPerReachedRoot ==
    out # <<>> =>
        LET E == entries(log)
            B == branches(log)
            cand == Range(leaves(log))
        IN  /\ \A r \in Roots(E) :
                  Cardinality({i \in DOMAIN B : B[i][1] = r}) =
                      (IF \E c \in cand : r \in UpSet(E, c) THEN 1 ELSE 0)
            /\ \A i \in DOMAIN B : B[i] # <<>> /\ B[i][1] \in Roots(E)

\* One root has its branch; another, whose tree has only side-branch leaves, has none.
C4_Witness ==
    /\ out # <<>>
    /\ LET E == entries(log)
           B == branches(log)
       IN  \E r \in Roots(E), q \in Roots(E) :
              /\ \E i \in DOMAIN B : B[i][1] = r
              /\ \A i \in DOMAIN B : B[i][1] # q
              /\ \A u \in TreeOf(E, q) \cap ForestLeaves(log) : E[u].isSidechain
              /\ TreeOf(E, q) \cap ForestLeaves(log) # {}

\* -------------------------------------------------------------------- C9
\* C9 (orphan parent references): p is in the returned orphan list exactly when
\* the entry of some id (the last line carrying that id) is not a side branch,
\* has the non-empty parent id p, and no line of the log carries the id p.
C9_OrphanParents ==
    out # <<>> =>
        \A p \in Uuid \cup Range(out[1].orphan_parents) :
            (p \in Range(out[1].orphan_parents)) <=>
                /\ \A j \in DOMAIN log : log[j].uuid # p
                /\ \E i \in DOMAIN log :
                      /\ log[i].uuid # 0
                      /\ \A j \in DOMAIN log : j > i => log[j].uuid # log[i].uuid
                      /\ log[i].parentUuid = p
                      /\ ~log[i].isSidechain

\* One orphan is listed while a side-branch entry cites another id outside the log.
C9_Witness ==
    /\ out # <<>>
    /\ out[1].orphan_parents # <<>>
    /\ LET E == entries(log)
       IN  \E u \in DOMAIN E :
              /\ E[u].isSidechain
              /\ E[u].parentUuid # 0
              /\ E[u].parentUuid \notin DOMAIN E
              /\ E[u].parentUuid \notin Range(out[1].orphan_parents)

\* ------------------------------------------------------------------- C10
\* C10 as stated (zero-text log): a log with an entry and no extractable text
\* yields no message and an active-leaf id that is an entry's id.
C10_ZeroTextValidLeaf ==
    (out # <<>> /\ DOMAIN entries(log) # {}
                /\ \A u \in DOMAIN entries(log) : entries(log)[u].text_data = None) =>
        /\ out[1].messages = <<>>
        /\ out[1].leaf_uuid \in DOMAIN entries(log)

\* -------------------------------------------------------------------- C7
\* C7 (change detection, unchanged case): a sync_session call on a log whose
\* byte size equals the file_size of the state file returns False and leaves
\* the part file (not rewritten) and the state file as they were.
C7_UnchangedIsSkipped ==
    [][(SyncSession /\ state # <<>> /\ state[1].file_size = file_size(log)) =>
          (ret' = <<FALSE>> /\ part' = part /\ state' = state)]_vars

\* A call returned False on an unchanged log that an earlier call had rendered.
C7_Witness ==
    /\ ret = <<FALSE>>
    /\ part # <<>>
    /\ state # <<>>
    /\ state[1].leaf_uuid # None
    /\ state[1].file_size = file_size(log)

\* -------------------------------------------------------------------- C8
\* The text of the part file; a part file never written shows nothing.
PartText(p) == IF p = <<>> THEN <<>> ELSE p[1].text

\* C8 as stated (change detection, changed case): after a sync_session call on a
\* log whose size differs from the recorded one, the part file is the rendering
\* of the active branch of the current log.
C8_ChangedIsRerendered ==
    [][(SyncSession /\ ~(state # <<>> /\ state[1].file_size = file_size(log))) =>
          PartText(part') = format_messages(all_messages(log))]_vars

\* -------------------------------------------------------------------- C5
\* C5 as stated (continuation edge): whenever the orphan list recorded for
\* session B holds an id that is an entry id of another session A's log, the map
\* returned by detect_chains has continues[B] = A.  Stated for the inputs on
\* which the session B continues is determined: A's is the only log that holds
\* an orphan id of B.
C5_ContinuationEdge ==
    continues # <<>> =>
        \A A \in Sid, B \in Sid :
            (/\ A # B
             /\ Range(state_orphans[B]) \cap Range(transcripts[A]) # {}
             /\ \A X \in Sid \ {A} :
                    Range(state_orphans[B]) \cap Range(transcripts[X]) = {}) =>
                (B \in DOMAIN continues[1].val /\ continues[1].val[B] = A)

\* -------------------------------------------------------------------- C6
\* C6 as stated (order independence): the chains built are the same for every
\* order in which the state files are enumerated and every insertion order of
\* the continuation map.
C6_OrderIndependent ==
    chains # <<>> =>
        \A order \in GlobOrders :
            LET c == detect_chains(order, state_orphans, transcripts)
            IN  \A ks \in {k \in [1..Len(c.keys) -> Range(c.keys)] : Range(k) = Range(c.keys)} :
                    build_chains([keys |-> ks, val |-> c.val]) = chains[1]

\* ------------------------------------------------------------------- C12
\* The entries visited by the upward walk from leaf c, in the order visited; the
\* walk stops at an id that is no entry's id or that it has visited before.
Visited(E, c) == TracePath(E, c, {})

\* C12 as stated (cycle break): every candidate leaf is assigned a root and is
\* grouped under it; the root is the last entry the upward walk visited, which
\* on a cycle is the entry visited just before the revisit.
C12_CycleBreak ==
    out # <<>> =>
        LET E == entries(log)
            l2r == leaf_to_root(log)
            r2l == root_to_leaves(log)
        IN  \A c \in Range(leaves(log)) :
                /\ c \in DOMAIN l2r
                /\ l2r[c] = Last(Visited(E, c))
                /\ l2r[c] \in DOMAIN r2l
                /\ c \in Range(r2l[l2r[c]])

\* ------------------------------------------------------------------- C13
\* The sessions of the chains in cs, one after the other, chain by chain.
Flatten(cs) ==
    LET f[i \in 0..Len(cs)] == IF i = 0 THEN <<>> ELSE f[i - 1] \o cs[i]
    IN  f[Len(cs)]

\* C13 (chains are disjoint): in the chains build_chains returns no session id
\* occurs twice, neither in two chains nor twice inside one chain.
C13_ChainsDisjoint ==
    bc.pc = "return" =>
        LET all == Flatten(chains[1])
        IN  \A i \in DOMAIN all, j \in DOMAIN all : all[i] = all[j] => i = j

\* Two chains were returned, one of them with more than one session.
C13_Witness ==
    /\ bc.pc = "return"
    /\ Len(chains[1]) >= 2
    /\ \E i \in DOMAIN chains[1] : Len(chains[1][i]) >= 2

\* ------------------------------------------------------------------- C14
\* C14 (termination): every call of build_chains returns, and no chain under
\* construction grows beyond the number of sessions, also when links form a cycle.
C14_Terminates ==
    /\ <>(bc.pc = "return")
    /\ [](Len(bc.chain) <= NumBuildSessions)

\* The call returned on a map with a cycle, having followed a reverse link.
C14_Witness ==
    /\ bc.pc = "return"
    /\ \E a \in DOMAIN continues[1].val, b \in DOMAIN continues[1].val :
          continues[1].val[a] = b /\ continues[1].val[b] = a
    /\ \E i \in DOMAIN chains[1] : Len(chains[1][i]) >= 2

\* ------------------------------------------------------------------- C15
\* C15 as stated (chain coverage): every session that occurs in the continuation
\* map, as a key or as a value, is in some returned chain.
C15_ChainCoverage ==
    bc.pc = "return" =>
        \A sid \in all_sessions(continues[1]) :
            \E i \in DOMAIN chains[1] : sid \in Range(chains[1][i])

\* ------------------------------------------------------------------- C11
\* C11 as stated (version-control failure is never fatal): whichever git step of
\* an invocation fails, is missing or times out, main is not left by an
\* exception, and when it ends the session has been synced (the state file
\* records the log's size, the part file holds the rendering of the log's
\* messages) and the completion signal has been emitted.
C11_GitNeverFatal ==
    /\ main.pc # "raised"
    /\ main.pc = "done" =>
          /\ main.signal
          /\ ret # <<>>
          /\ state # <<>> /\ state[1].file_size = file_size(log)
          /\ all_messages(log) # <<>> =>
                PartText(part) = format_messages(all_messages(log))

====
